---- MODULE Spec2Model ----
(***************************************************************************)
(* Model of FixtureProvider (src/src/fixture.provider.ts): lazy building   *)
(* of fixture instances, the instance memo, the dependency table and the   *)
(* ordered, awaited persistence of an instance with its dependencies.      *)
(***************************************************************************)
EXTENDS Integers, Sequences, FiniteSets, TLC

(* ------------------------------ bounds -------------------------------- *)
MaxOps == 3        \* synchronous calls: bound functions, setters, modifiers, reset()
MaxSaves == 1      \* calls of save() on an instance
MaxDuring == 1     \* synchronous calls made while a save() is running
MaxStack == 4      \* nested saveFixtureInstance activations
StackLimit == 4    \* the engine's call stack, in nested calls of one function

(* ------------------------------ values -------------------------------- *)
\* Every JavaScript value of the model has one shape, so that any two can be
\* compared: t is the kind, n a number (object id, primitive), s the elements
\* of an array, f a name (fixture, entity, function).
Val(t, n, s, f) == [t |-> t, n |-> n, s |-> s, f |-> f]
Undefined == Val("undefined", 0, <<>>, "")
Null == Val("null", 0, <<>>, "")
Plain(n) == Val("plain", n, <<>>, "")          \* a primitive (0 is falsy)
Ref(o) == Val("ref", o, <<>>, "")              \* an entity of repository.create
Array(vs) == Val("array", 0, vs, "")           \* an array of values
Ext(name, seen) == Val("ext", seen, <<>>, name) \* a plain entity object
Fn(name, o) == Val("fn", o, <<>>, name)        \* a function returning an entity
FixtureVal(f) == Val("fixture", 0, <<>>, f)    \* a fixture object
FuncOf(n) == Val("func", n, <<>>, "")          \* a function returning Plain(n)
\* RangeError: Maximum call stack size exceeded
RangeError == Val("error", 0, <<>>, "RangeError")

(* ------------------------- fixture definitions ------------------------ *)
\* The fixtures handed to bind(): the test data the provider works on.
Fixtures == {"User", "Item", "Gift", "Order", "Ping", "Pong", "Hen", "Egg", "Cart", "Line"}
NoFixture == "null"

Keys == {"id", "name", "owner", "sku", "user", "items", "note", "peer", "egg", "hen",
         "cart", "seen", "later"}

\* The fixtures of the object given to bind(): those the caller can build
\* by name; the others are built as dependencies only.
Bound == {"Order", "User"}

\* The fixtures declared with fixture(Entity, init, modifiers), each for the
\* entity of its name; Line is declared as related(Item, ofCart).
\* init as key/value entries in key order.
HasInit(f) == f \notin {"Gift", "Ping"}

InitOf(f) ==
  CASE f = "User" -> << <<"name", Plain(1)>> >>
    [] f = "Item" -> << <<"owner", FixtureVal("User")>>, <<"sku", FuncOf(2)>> >>
    [] f = "Gift" -> << >>
    [] f = "Order" -> << <<"user", FixtureVal("User")>>,
                         <<"items", Array(<<FixtureVal("Item"), FixtureVal("Gift")>>)>>,
                         <<"note", Array(<<FixtureVal("Gift"), Plain(3)>>)>> >>
    [] f = "Ping" -> << >>
    [] f = "Pong" -> << <<"peer", FixtureVal("Ping")>> >>
    [] f = "Hen" -> << <<"egg", FixtureVal("Egg")>> >>
    [] f = "Egg" -> << <<"hen", FixtureVal("Hen")>> >>
    [] f = "Cart" -> << <<"name", Plain(4)>>,
                        <<"items", Array(<<FixtureVal("Line")>>)>>,
                        <<"note", Array(<<FixtureVal("Gift"), Plain(3)>>)>> >>
    [] OTHER -> << >>

\* tz.collectSchema(Entity).columns
Columns(f) ==
  CASE f = "User" -> {"name"}
    [] f = "Item" -> {"sku"}
    [] f = "Gift" -> {}
    [] f = "Order" -> {"note"}
    [] f = "Cart" -> {"name", "note"}
    [] OTHER -> {}

\* Modifier functions of the fixtures: the dependencies the modifier adds
\* through its context (argument, save order), and what it returns.
ModifiersOf(f) ==
  CASE f = "Order" -> {"withAudit", "withOrg", "count"}
    [] f = "User" -> {"withGift"}
    [] f = "Ping" -> {"withPong", "withPongAfter"}
    [] f = "Cart" -> {"addLine"}
    [] f = "Item" -> {"discount"}
    [] OTHER -> {}

ModifierAdds(m, o) ==
  CASE m = "withAudit" -> << <<Fn("audit", o), "after">> >>
    [] m = "withOrg" -> << <<Ext("Org", 0), "before">> >>
    [] m = "withGift" -> << <<FixtureVal("Gift"), "after">> >>
    [] m = "withPong" -> << <<FixtureVal("Pong"), "before">> >>
    [] m = "withPongAfter" -> << <<FixtureVal("Pong"), "after">> >>
    [] m = "addLine" -> << <<FixtureVal("Line"), "after">> >>
    [] OTHER -> << >>

ModifierResult(m) ==
  CASE m = "withAudit" -> Undefined
    [] m = "withOrg" -> Null
    [] m = "withGift" -> Plain(7)
    [] m = "count" -> Plain(0)
    [] OTHER -> Undefined

\* The init of a fixture object: nothing, an object of entries, or the
\* function related() makes of the init it was given (`of`) and the init
\* function of its caller (`with`).
NoInit == [t |-> "null"]
InitObject(entries) == [t |-> "object", entries |-> entries]
InitFunction(of, with) == [t |-> "function", of |-> of, with |-> with]

\* fixture(Entity, init, modifiers): the Fixture object it returns.
Fixture(Entity, init, modifiers) ==
  [FIXTURE |-> TRUE, Entity |-> Entity, init |-> init, modifiers |-> modifiers]

\* (C16's mutant: the init of the fixture given is dropped)
relatedAlone(fx, init) ==
  [FIXTURE |-> fx.FIXTURE, Entity |-> fx.Entity, modifiers |-> fx.modifiers,
   init |-> InitFunction(NoInit, init)]

\* related(fixture, init): {...fixture, init: ownerInstance => ({...})}
related(fx, init) ==
  [FIXTURE |-> fx.FIXTURE, Entity |-> fx.Entity, modifiers |-> fx.modifiers,
   init |-> InitFunction(fx.init, init)]

\* The fixture object each name stands for.
Declared(f) ==
  Fixture(f, IF HasInit(f) THEN InitObject(InitOf(f)) ELSE NoInit, ModifiersOf(f))
Object(f) ==
  IF f = "Line" THEN related(Declared("Item"), "ofCart") ELSE Declared(f)

\* The init function given to related() for Line:
\*   owner => ({cart: owner, sku: 9, seen: owner?.name, later: owner?.note})
ExtraInit(name, ownerInstance, objs_) ==
  IF ownerInstance = 0
  THEN << <<"cart", Undefined>>, <<"sku", Plain(9)>>, <<"seen", Undefined>>,
          <<"later", Undefined>> >>
  ELSE << <<"cart", Ref(ownerInstance)>>, <<"sku", Plain(9)>>,
          <<"seen", objs_[ownerInstance].fields["name"]>>,
          <<"later", objs_[ownerInstance].fields["note"]>> >>

\* {...a, ...b} on entries: a key of a keeps its place and takes the value b
\* has for it; the keys only b has follow, in b's order.
HasKey(entries, key) == \E i \in DOMAIN entries : entries[i][1] = key
ValueAt(entries, key) == entries[CHOOSE i \in DOMAIN entries : entries[i][1] = key][2]
Spread(a, b) ==
  [i \in DOMAIN a |-> IF HasKey(b, a[i][1]) THEN <<a[i][1], ValueAt(b, a[i][1])>> ELSE a[i]]
  \o SelectSeq(b, LAMBDA e : ~HasKey(a, e[1]))

(* ------------------------------- state -------------------------------- *)
VARIABLES
  bound,         \* bind() has returned the bound fixture functions
  instances,     \* the memo: Map<AnyFixture, object>
  dependencies,  \* the table: Map<AnyFixture, Dependency[]>
  objs,          \* every entity repository.create has made, by object id
  created,       \* repository.create calls per fixture since the last reset
  built,         \* buildFixtureInstance calls per fixture since the last reset
  routes,        \* how each fixture came to be built since the last reset
  registered,    \* the dependencies registered since the last reset, by owner
  epoch,         \* the number of entities made before the last reset
  last,          \* the last synchronous call and what it returned
  held,          \* the instance the caller holds: its latest bound call's
  budget,        \* calls made so far, by kind
  stack,         \* the saveFixtureInstance activations of the running save()
  pending,       \* the persistence calls issued and not yet resolved
  log,           \* what the running (or last) save() did, in order
  save,          \* the running (or last) save() call, what it resolved to, and
                 \* the table and the count of interleaved calls when it was made
  naid,          \* activations started so far
  dbseq          \* ids the database has generated

vars == <<bound, instances, dependencies, objs, created, built, routes, registered, epoch, last,
          held, budget,
          stack, pending, log, save, naid, dbseq>>

\* isPlainObject(arg) && arg[FIXTURE] === true: the values of kind
\* "fixture" are the plain objects that carry the FIXTURE symbol.
isFixture(v) == v.t = "fixture"
isFunction(v) == v.t \in {"fn", "func"}
isArray(v) == v.t = "array"

NoFields == [k \in Keys |-> Undefined]
NoMethods == [setters |-> {}, modifiers |-> {}, save |-> FALSE]

\* The provider's maps and the entities, with the call stack of the call
\* that is running: its depth, and whether it has overflowed.
Heap(i, d, o, c, b, r, g) ==
  [instances |-> i, dependencies |-> d, objs |-> o, created |-> c, built |-> b, routes |-> r,
   registered |-> g, depth |-> 0, thrown |-> FALSE]
Out(h, ret) == [h |-> h, ret |-> ret]

Get(map, k) == IF k \in DOMAIN map THEN map[k] ELSE 0
Put(map, k, v) == [x \in DOMAIN map \cup {k} |-> IF x = k THEN v ELSE map[x]]

SetField(h, o, key, v) ==
  [h EXCEPT !.objs[o].fields[key] = v]

\* Calling a function value with no arguments. "func" returns a primitive;
\* the "audit" function returns an entity that refers to the id its object
\* has at the time of the call (0 while it has none).
IdOf(objs_, o) == IF objs_[o].fields["id"].t = "plain" THEN objs_[o].fields["id"].n ELSE 0
Apply(fn, objs_) ==
  IF fn.t = "func" THEN Plain(fn.n) ELSE Ext("Audit", IdOf(objs_, fn.n))

(* ------------------------------ building ------------------------------ *)
\* (C9's mutant: a function is called when it is registered)
addDependencyEager(h, owner, fixture, instance, saveOrder) ==
  LET deps == IF owner \in DOMAIN h.dependencies THEN h.dependencies[owner] ELSE <<>>
      entry == [fixture |-> fixture,
                instance |-> IF isFunction(instance) THEN Apply(instance, h.objs) ELSE instance,
                saveOrder |-> saveOrder]
  IN  [h EXCEPT !.dependencies = Put(h.dependencies, owner, Append(deps, entry)),
                !.registered = @ \cup {[owner |-> owner, dep |-> entry]}]

\* addDependency: push {fixture, instance: thunk, saveOrder} on the owner's
\* list, made on first use (MapUtil.ensure). A function is kept as it is,
\* anything else is wrapped in () => instance.
\* (C19's mutant: an entry the list already holds is not added again)
addDependencyOnce(h, owner, fixture, instance, saveOrder) ==
  LET deps == IF owner \in DOMAIN h.dependencies THEN h.dependencies[owner] ELSE <<>>
      entry == [fixture |-> fixture, instance |-> instance, saveOrder |-> saveOrder]
  IN  IF \E i \in DOMAIN deps : deps[i] = entry THEN h
      ELSE [h EXCEPT !.dependencies = Put(h.dependencies, owner, Append(deps, entry)),
                     !.registered = @ \cup {[owner |-> owner, dep |-> entry]}]

addDependency(h, owner, fixture, instance, saveOrder) ==
  LET deps == IF owner \in DOMAIN h.dependencies THEN h.dependencies[owner] ELSE <<>>
      entry == [fixture |-> fixture, instance |-> instance, saveOrder |-> saveOrder]
  IN  [h EXCEPT !.dependencies = Put(h.dependencies, owner, Append(deps, entry)),
                !.registered = @ \cup {[owner |-> owner, dep |-> entry]}]

\* (C3's mutant: the memo is not looked up)
buildAlways(h, fixture) ==
  LET o == Len(h.objs) + 1
  IN  Out([h EXCEPT
             !.objs = Append(h.objs, [fixture |-> fixture, fields |-> [k \in Keys |-> Undefined],
                                       methods |-> [setters |-> {}, modifiers |-> {},
                                                    save |-> FALSE]]),
             !.created[fixture] = @ + 1,
             !.instances = Put(h.instances, fixture, o)], o)

\* buildOrReuseInstance: the memoized instance, or a new one from
\* repository.create() that is put in the memo.
buildOrReuseInstance(h, fixture) ==
  IF Get(h.instances, fixture) # 0
  THEN Out(h, Get(h.instances, fixture))
  ELSE LET o == Len(h.objs) + 1
           h1 == [h EXCEPT
                    !.objs = Append(h.objs, [fixture |-> fixture, fields |-> NoFields,
                                              methods |-> NoMethods]),
                    !.created[fixture] = @ + 1,
                    !.instances = Put(h.instances, fixture, o)]
       IN  Out(h1, o)

\* The record of routes: a fixture is about to be built on this route.
Routed(h, value, route) ==
  IF isFixture(value) THEN [h EXCEPT !.routes = @ \cup {<<value.f, route>>}] ELSE h

RECURSIVE buildFixtureInstance(_, _, _)
RECURSIVE resolveAll(_, _, _, _, _)
RECURSIVE initEntries(_, _, _, _)

\* resolveDependency: build a fixture (with the owner's instance as the
\* argument of its init), take anything else as it is, and register it.
\* (C17's mutant: the dependency is built without its owner)
resolveDependencyUnowned(h, ownerFixture, ownerInstance, value, saveOrder) ==
  IF isFixture(value)
  THEN LET b == buildFixtureInstance(h, value.f, 0)
       IN  IF b.h.thrown THEN Out(b.h, RangeError)
           ELSE Out(addDependency(b.h, ownerFixture, value.f, Ref(b.ret), saveOrder),
                    Ref(b.ret))
  ELSE Out(addDependency(h, ownerFixture, NoFixture, value, saveOrder), value)

resolveDependency(h, ownerFixture, ownerInstance, value, saveOrder) ==
  IF isFixture(value)
  THEN LET b == buildFixtureInstance(h, value.f, ownerInstance)
       IN  IF b.h.thrown THEN Out(b.h, RangeError)
           ELSE Out(addDependency(b.h, ownerFixture, value.f, Ref(b.ret), saveOrder),
                    Ref(b.ret))
  ELSE Out(addDependency(h, ownerFixture, NoFixture, value, saveOrder), value)

\* value.map(it => resolveDependency(..., it, 'after')), left to right
resolveAll(h, fixture, instance, vs, acc) ==
  IF h.thrown THEN Out(h, RangeError)
  ELSE IF vs = <<>> THEN Out(h, Array(acc))
  ELSE LET r == resolveDependency(Routed(h, Head(vs), "init"), fixture, instance,
                                  Head(vs), "after")
       IN  resolveAll(r.h, fixture, instance, Tail(vs), Append(acc, r.ret))

\* (C2's mutant: a single fixture is registered to be saved after its owner)
resolvePropAfter(h, fixture, instance, value) ==
  IF isFixture(value)
  THEN resolveDependency(Routed(h, value, "init"), fixture, instance, value, "after")
  ELSE IF isArray(value) /\ \A i \in DOMAIN value.s : isFixture(value.s[i])
  THEN resolveAll(h, fixture, instance, value.s, <<>>)
  ELSE IF isFunction(value)
  THEN Out(h, Apply(value, h.objs))
  ELSE Out(h, value)

\* (C18's mutant: an array with some fixture in it is resolved)
resolvePropSome(h, fixture, instance, value) ==
  IF isFixture(value)
  THEN resolveDependency(Routed(h, value, "init"), fixture, instance, value, "before")
  ELSE IF isArray(value) /\ \E i \in DOMAIN value.s : isFixture(value.s[i])
  THEN resolveAll(h, fixture, instance, value.s, <<>>)
  ELSE IF isFunction(value)
  THEN Out(h, Apply(value, h.objs))
  ELSE Out(h, value)

resolveProp(h, fixture, instance, value) ==
  IF isFixture(value)
  THEN resolveDependency(Routed(h, value, "init"), fixture, instance, value, "before")
  ELSE IF isArray(value) /\ \A i \in DOMAIN value.s : isFixture(value.s[i])
  THEN resolveAll(h, fixture, instance, value.s, <<>>)
  ELSE IF isFunction(value)
  THEN Out(h, Apply(value, h.objs))
  ELSE Out(h, value)

\* the loop of initFixture over objectEntries(init)
initEntries(h, fixture, instance, entries) ==
  IF entries = <<>> THEN h
  ELSE LET r == resolveProp(h, fixture, instance, Head(entries)[2])
       IN  IF r.h.thrown THEN r.h
           ELSE initEntries(SetField(r.h, instance, Head(entries)[1], r.ret),
                            fixture, instance, Tail(entries))

\* isFunction(fixture.init) ? fixture.init(ownerInstance) : fixture.init,
\* the function being the one related() made.
RECURSIVE CallInit(_, _, _)
CallInit(init, ownerInstance, objs_) ==
  IF init.t = "null" THEN <<>>
  ELSE IF init.t = "object" THEN init.entries
  ELSE Spread(CallInit(init.of, ownerInstance, objs_),
              ExtraInit(init.with, ownerInstance, objs_))

initFixture(h, fixture, instance, ownerInstance) ==
  IF Object(fixture).init.t = "null" THEN h
  ELSE initEntries(h, fixture, instance,
                   CallInit(Object(fixture).init, ownerInstance, h.objs))

\* fixturize: the with_<column> setters, the modifier wrappers and save are
\* put on the instance.
fixturize(h, fixture, instance) ==
  [h EXCEPT !.objs[instance].methods =
     [setters |-> Columns(Object(fixture).Entity),
      modifiers |-> Object(fixture).modifiers, save |-> TRUE]]

\* (C15's mutant: init is not run again on an instance found in the memo)
buildFixtureInstanceOnce(h, fixture, ownerInstance) ==
  IF h.depth >= StackLimit THEN Out([h EXCEPT !.thrown = TRUE], 0)
  ELSE LET h0 == [h EXCEPT !.depth = @ + 1, !.built[fixture] = @ + 1]
           b == buildOrReuseInstance(h0, fixture)
           i == IF Get(h.instances, fixture) # 0 THEN b.h
                ELSE initFixture(b.h, fixture, b.ret, ownerInstance)
       IN  IF i.thrown THEN Out(i, 0)
           ELSE Out([fixturize(i, fixture, b.ret) EXCEPT !.depth = h.depth], b.ret)

\* buildFixtureInstance: one more frame on the call stack, which throws a
\* RangeError out of every frame when it is full.
buildFixtureInstance(h, fixture, ownerInstance) ==
  IF h.depth >= StackLimit THEN Out([h EXCEPT !.thrown = TRUE], 0)
  ELSE LET h0 == [h EXCEPT !.depth = @ + 1, !.built[fixture] = @ + 1]
           b == buildOrReuseInstance(h0, fixture)
           i == initFixture(b.h, fixture, b.ret, ownerInstance)
       IN  IF i.thrown THEN Out(i, 0)
           ELSE Out([fixturize(i, fixture, b.ret) EXCEPT !.depth = h.depth], b.ret)

\* The body of a modifier: each addDependencyBefore / addDependencyAfter it
\* calls on its context.
RECURSIVE runModifier(_, _, _, _)
runModifier(h, fixture, instance, adds) ==
  IF adds = <<>> \/ h.thrown THEN h
  ELSE runModifier(resolveDependency(Routed(h, Head(adds)[1], "modifier"), fixture, instance,
                                     Head(adds)[1], Head(adds)[2]).h,
                   fixture, instance, Tail(adds))

\* (C10's mutant: result || instance)
CoalesceFalsy(result, instance) ==
  IF result.t \in {"undefined", "null"} \/ result = Plain(0) THEN instance ELSE result

\* result ?? instance
Coalesce(result, instance) ==
  IF result.t \in {"undefined", "null"} THEN instance ELSE result

\* The wrapper fixturize puts around a modifier: the modifier runs on the
\* instance with its context, and the wrapper returns result ?? instance.
modifierWrapper(h, fixture, instance, m) ==
  LET r == runModifier(h, fixture, instance, ModifierAdds(m, instance))
  IN  Out(r, IF r.thrown THEN RangeError ELSE Coalesce(ModifierResult(m), Ref(instance)))

\* The setter fixturize defines: this[key] = value; return this
withSetter(h, this, key, value) ==
  Out(SetField(h, this, key, value), Ref(this))

(* --------------------------- synchronous calls ------------------------ *)
Here == Heap(instances, dependencies, objs, created, built, routes, registered)
Store(h) ==
  /\ instances' = h.instances
  /\ dependencies' = h.dependencies
  /\ objs' = h.objs
  /\ created' = h.created
  /\ built' = h.built
  /\ routes' = h.routes
  /\ registered' = h.registered

Spend(kind, max) ==
  /\ budget[kind] < max
  /\ stack # <<>> => budget.during < MaxDuring
  /\ budget' = [budget EXCEPT ![kind] = @ + 1,
                              !.during = IF stack # <<>> THEN @ + 1 ELSE @]
\* The record of a call: on which instance (o, of fixture f), which setter or
\* modifier (key), with which argument, and what it returned.
Called(op, f, o, key, arg, ret) ==
  [op |-> op, f |-> f, o |-> o, key |-> key, arg |-> arg, ret |-> ret]

saveVars == <<stack, pending, log, save, naid, dbseq>>

\* (C4's mutant: bind builds a fixture at once)
BindEager ==
  /\ ~bound
  /\ bound' = TRUE
  /\ Store(buildFixtureInstance(Here, "User", 0).h)
  /\ last' = Called("bind", "", 0, "", Undefined, Undefined)
  /\ UNCHANGED <<epoch, held, budget, saveVars>>

\* bind(fixtures): every fixture becomes a function that builds it.
Bind ==
  /\ ~bound
  /\ bound' = TRUE
  /\ last' = Called("bind", "", 0, "", Undefined, Undefined)
  /\ UNCHANGED <<instances, dependencies, objs, created, built, routes, registered, epoch, held,
                 budget, saveVars>>

\* a bound fixture function: () => this.buildFixtureInstance(value)
Call(f) ==
  /\ bound
  /\ Spend("op", MaxOps)
  /\ LET b == buildFixtureInstance(Routed(Here, FixtureVal(f), "bound"), f, 0)
     IN  /\ Store(b.h)
         /\ last' = Called("call", f, 0, "", Undefined,
                           IF b.h.thrown THEN RangeError ELSE Ref(b.ret))
         /\ held' = IF b.h.thrown THEN held ELSE b.ret
  /\ UNCHANGED <<bound, epoch, saveVars>>

\* with_<key>(value) called on an instance
With(o, key, v) ==
  /\ o = held
  /\ key \in objs[o].methods.setters
  /\ Spend("op", MaxOps)
  /\ LET r == withSetter(Here, o, key, v)
     IN  /\ Store(r.h)
         /\ last' = Called("with", objs[o].fixture, o, key, v, r.ret)
  /\ UNCHANGED <<bound, epoch, held, saveVars>>

\* a modifier wrapper on an instance
Modify(o, m) ==
  /\ o = held
  /\ m \in objs[o].methods.modifiers
  /\ Spend("op", MaxOps)
  /\ LET r == modifierWrapper(Here, objs[o].fixture, o, m)
     IN  /\ Store(r.h)
         /\ last' = Called("mod", objs[o].fixture, o, m, Undefined, r.ret)
  /\ UNCHANGED <<bound, epoch, held, saveVars>>


(* ------------------------------- saving ------------------------------- *)

\* An entry of the log: what happened (k), in which activation (aid, of
\* fixture f, started by activation par), to what (tgt), for which entry of
\* the dependency list (dep), and on entry the list as it then was (deps).
NoDep == [fixture |-> NoFixture, instance |-> Undefined, saveOrder |-> "none"]
Event(k, fr, tgt, dep, deps) ==
  [k |-> k, aid |-> fr.aid, par |-> fr.par, f |-> fr.fixture, tgt |-> tgt,
   dep |-> dep, deps |-> deps]

\* One activation of saveFixtureInstance, started for the entry dep of its
\* caller's list. `dependencies` of the code is the array taken from the
\* table on entry: it is the table's own array (live) while the table holds
\* it, and an array of its own otherwise (snap).
Frame(fixture, instance, aid, par, dep, live, list) ==
  [fixture |-> fixture, instance |-> instance, aid |-> aid, par |-> par, dep |-> dep,
   live |-> live, snap |-> <<>>, pc |-> "before", idx |-> 1, list |-> list]


\* depth: the saveFixtureInstance frames on the call stack (one when an
\* activation goes on after an await); thrown: the stack has overflowed.
Machine(o, d, st, p, l, n, q) ==
  [objs |-> o, dependencies |-> d, stack |-> st, pending |-> p, log |-> l,
   naid |-> n, dbseq |-> q, depth |-> 1, thrown |-> FALSE]

\* (C11's mutant: the filter returns its bucket last entry first)
RECURSIVE FilterReversed(_, _)
FilterReversed(deps, saveOrder) ==
  IF deps = <<>> THEN <<>>
  ELSE IF Head(deps).saveOrder = saveOrder
       THEN FilterReversed(Tail(deps), saveOrder) \o <<Head(deps)>>
       ELSE FilterReversed(Tail(deps), saveOrder)

\* (C1's mutant: the filter keeps the other bucket)
RECURSIVE FilterOther(_, _)
FilterOther(deps, saveOrder) ==
  IF deps = <<>> THEN <<>>
  ELSE IF Head(deps).saveOrder # saveOrder
       THEN <<Head(deps)>> \o FilterOther(Tail(deps), saveOrder)
       ELSE FilterOther(Tail(deps), saveOrder)

\* dependencies.filter(it => it.saveOrder === saveOrder)
RECURSIVE Filter(_, _)
Filter(deps, saveOrder) ==
  IF deps = <<>> THEN <<>>
  ELSE IF Head(deps).saveOrder = saveOrder
       THEN <<Head(deps)>> \o Filter(Tail(deps), saveOrder)
       ELSE Filter(Tail(deps), saveOrder)

\* this.dependencies.get(fixture) ?? []
DepsOf(table, fixture) == IF fixture \in DOMAIN table THEN table[fixture] ELSE <<>>

DepsArray(m, fr) == IF fr.live THEN DepsOf(m.dependencies, fr.fixture) ELSE fr.snap

\* dependency.instance(): the wrapped instance, or the function called now
DepInstance(dep, objs_) ==
  IF isFunction(dep.instance) THEN Apply(dep.instance, objs_) ELSE dep.instance

Top(m) == m.stack[Len(m.stack)]
SetTop(m, fr) == [m EXCEPT !.stack[Len(m.stack)] = fr]
Logged(m, e) == [m EXCEPT !.log = Append(@, e)]

\* Entering saveFixtureInstance(fixture, instance): line 141 and the filter
\* of line 143 run at once.
Enter(m, fixture, instance, par, dep) ==
  LET aid == m.naid + 1
      deps == DepsOf(m.dependencies, fixture)
      fr == Frame(fixture, instance, aid, par, dep, fixture \in DOMAIN m.dependencies,
                  Filter(deps, "before"))
  IN  [Logged(m, Event("call", fr, Ref(instance), dep, deps))
         EXCEPT !.stack = Append(@, fr), !.naid = aid, !.depth = @ + 1]

RECURSIVE Advance(_)

\* The call stack is full: the call throws a RangeError, which rejects the
\* activation making it and, there being no catch, every activation
\* awaiting that one, up to save().
Throw(m) ==
  [Logged(m, Event("throw", Top(m), RangeError, NoDep, <<>>))
     EXCEPT !.stack = <<>>, !.thrown = TRUE]

\* (C12's mutant: entityManager.save is called and not awaited)
IssueDetached(m, via, tgt, pc, dep) ==
  LET fr == Top(m)
      m1 == [Logged(m, Event(via \o ".start", fr, tgt, dep, <<>>))
               EXCEPT !.pending = Append(@, [via |-> via, tgt |-> tgt, dep |-> dep])]
  IN  IF via = "em"
      THEN Advance(SetTop(m1, [fr EXCEPT !.idx = @ + 1]))
      ELSE SetTop(m1, [fr EXCEPT !.pc = pc])

\* A persistence call is issued and awaited.
Issue(m, via, tgt, pc, dep) ==
  LET fr == Top(m)
      m1 == SetTop(m, [fr EXCEPT !.pc = pc])
  IN  [Logged(m1, Event(via \o ".start", fr, tgt, dep, <<>>))
         EXCEPT !.pending = Append(@, [via |-> via, tgt |-> tgt, dep |-> dep])]

\* (C14's mutant: a fixture that is being saved is not saved again)
AdvanceVisited(m) ==
  LET fr == Top(m) IN
  IF fr.idx > Len(fr.list)
  THEN IF fr.pc = "before"
       THEN Issue(m, "repo", Ref(fr.instance), "own", NoDep)
       ELSE Logged(SetTop(m, [fr EXCEPT !.pc = "done"]),
                   Event("ret", fr, Ref(fr.instance), fr.dep, <<>>))
  ELSE LET dep == fr.list[fr.idx]
           inst == DepInstance(dep, m.objs)
       IN  IF dep.fixture # NoFixture
           THEN IF \E i \in DOMAIN m.stack : m.stack[i].fixture = dep.fixture
                THEN Advance(SetTop(m, [fr EXCEPT !.idx = @ + 1]))
                ELSE Advance(Enter(SetTop(m, [fr EXCEPT !.pc = fr.pc \o "Call"]),
                                   dep.fixture, inst.n, fr.aid, dep))
           ELSE Issue(m, "em", inst, fr.pc \o "Await", dep)

\* Runs the top activation from where it stands up to its next await: a
\* persistence call of its own, or the end of the activation. A fixture
\* dependency is a nested activation, which runs at once up to its first
\* await.
Advance(m) ==
  LET fr == Top(m) IN
  IF fr.idx > Len(fr.list)
  THEN IF fr.pc = "before"
       THEN Issue(m, "repo", Ref(fr.instance), "own", NoDep)
       ELSE Logged(SetTop(m, [fr EXCEPT !.pc = "done"]),
                   Event("ret", fr, Ref(fr.instance), fr.dep, <<>>))
  ELSE LET dep == fr.list[fr.idx]
           inst == DepInstance(dep, m.objs)
           m1 == IF isFunction(dep.instance)
                 THEN Logged(m, Event("eval", fr, inst, dep, <<>>))
                 ELSE m
       IN  IF dep.fixture # NoFixture
           THEN IF m.depth >= StackLimit
                THEN Throw(m1)
                ELSE IF Len(m.stack) >= MaxStack
                THEN SetTop(m1, [fr EXCEPT !.pc = "overflow"])
                ELSE Advance(Enter(SetTop(m1, [fr EXCEPT !.pc = fr.pc \o "Call"]),
                                   dep.fixture, inst.n, fr.aid, dep))
           ELSE Issue(m1, "em", inst, fr.pc \o "Await", dep)

\* repository.save(instance) resolves to the saved entity: the instance's
\* columns, with a generated id when it had none.
SavedId(m, o) ==
  IF m.objs[o].fields["id"].t = "plain" THEN m.objs[o].fields["id"] ELSE Plain(m.dbseq + 1)

\* (C7's mutant: the saved fields are not copied back)
AssignNothing(m, o) == m

\* Object.assign(instance, {...saved})
AssignSaved(m, o) ==
  LET id == SavedId(m, o)
  IN  [m EXCEPT !.objs[o].fields["id"] = id,
                !.dbseq = IF id.n > @ THEN id.n ELSE @]

\* The continuation after an await.
Continue(m) ==
  LET fr == Top(m) IN
  IF fr.pc = "own"
  THEN LET m1 == AssignSaved(m, fr.instance)
           m2 == Logged(m1, Event("assign", fr, m1.objs[fr.instance].fields["id"],
                                  NoDep, <<>>))
       IN  Advance(SetTop(m2, [fr EXCEPT !.pc = "after", !.idx = 1,
                                         !.list = Filter(DepsArray(m2, fr), "after")]))
  ELSE Advance(SetTop(m, [fr EXCEPT !.idx = @ + 1,
                                    !.pc = IF fr.pc \in {"beforeAwait", "beforeCall"}
                                           THEN "before" ELSE "after"]))

Now == Machine(objs, dependencies, stack, pending, log, naid, dbseq)
StoreMachine(m) ==
  /\ objs' = m.objs
  /\ stack' = m.stack
  /\ pending' = m.pending
  /\ log' = m.log
  /\ naid' = m.naid
  /\ dbseq' = m.dbseq

\* The promise of save(): rejected when the call stack has overflowed.
Settled(sv, m) ==
  IF m.thrown THEN [sv EXCEPT !.state = "rejected", !.ret = RangeError] ELSE sv

SaveArgs == {"omitted", "false"}

\* instance.save(includeDependencies?) as fixturize defines it: the argument
\* is not taken.
SaveCall(o, arg) ==
  /\ o = held
  /\ objs[o].methods.save
  /\ stack = <<>>
  /\ Spend("save", MaxSaves)
  /\ LET m == Advance(Enter([Now EXCEPT !.log = <<>>, !.naid = 0, !.depth = 0],
                            objs[o].fixture, o, 0, NoDep))
     IN  /\ StoreMachine(m)
         /\ save' = Settled([on |-> o, arg |-> arg, state |-> "running", ret |-> Undefined,
                              table |-> dependencies, during |-> budget.during], m)
  /\ UNCHANGED <<bound, instances, dependencies, created, built, routes, registered, epoch, last,
                 held>>

Ended(m, p) ==
  Logged([m EXCEPT !.pending = Tail(@)],
         Event(p.via \o ".end", Top(m), p.tgt, p.dep, <<>>))

\* The awaited persistence call resolves and the activation goes on.
Resolve ==
  /\ pending # <<>>
  /\ \E n \in {Continue(Ended(Now, Head(pending)))} :
       StoreMachine(n) /\ save' = Settled(save, n)
  /\ UNCHANGED <<bound, instances, dependencies, created, built, routes, registered, epoch, last,
                 held, budget>>

\* The error a persistence call rejects with: that of the n-th call.
Error(via, n) == Val("error", n, <<>>, via)
Rejected(m, p) ==
  Logged([m EXCEPT !.pending = Tail(@)],
         Event(p.via \o ".reject", Top(m), p.tgt, p.dep, <<>>))

\* (C13's mutant: the rejection is caught and the loop goes on)
RejectCaught ==
  /\ pending # <<>>
  /\ StoreMachine(Continue(Rejected(Now, Head(pending))))
  /\ UNCHANGED <<bound, instances, dependencies, created, built, routes, registered, epoch, last,
                 held, budget, save>>

\* The awaited persistence call rejects: the await throws, no activation
\* catches, and every activation up to save() rejects with the error.
Reject ==
  /\ pending # <<>>
  /\ LET m == Rejected(Now, Head(pending))
     IN  /\ log' = m.log
         /\ pending' = m.pending
  /\ stack' = <<>>
  /\ save' = [save EXCEPT !.state = "rejected",
                          !.ret = Error(Head(pending).via,
                                        Cardinality({i \in DOMAIN log :
                                                       log[i].k \in {"repo.start", "em.start"}}))]
  /\ UNCHANGED <<bound, instances, dependencies, objs, created, built, routes, registered, epoch,
                 last, held, budget, naid, dbseq>>

\* A nested activation has returned: the activation awaiting it goes on.
Resume ==
  /\ pending = <<>>
  /\ Len(stack) > 1
  /\ Top(Now).pc = "done"
  /\ \E n \in {Continue([Now EXCEPT !.stack = SubSeq(@, 1, Len(@) - 1)])} :
       StoreMachine(n) /\ save' = Settled(save, n)
  /\ UNCHANGED <<bound, instances, dependencies, created, built, routes, registered, epoch, last,
                 held, budget>>

\* The outermost activation has returned: save() resolves to its instance.
Finish ==
  /\ pending = <<>>
  /\ Len(stack) = 1
  /\ Top(Now).pc = "done"
  /\ stack' = <<>>
  /\ save' = [save EXCEPT !.state = "resolved", !.ret = Ref(stack[1].instance)]
  /\ UNCHANGED <<bound, instances, dependencies, objs, created, built, routes, registered, epoch,
                 last, held, budget, pending, log, naid, dbseq>>

\* reset(): both maps are cleared. An array a running save() holds is no
\* longer the table's.
Detach(fr) ==
  IF fr.live THEN [fr EXCEPT !.live = FALSE, !.snap = DepsOf(dependencies, fr.fixture)]
  ELSE fr

\* (C8's mutant: only the memo is cleared)
ResetMemoOnly ==
  /\ Spend("op", MaxOps)
  /\ instances' = << >>
  /\ created' = [f \in Fixtures |-> 0]
  /\ built' = [f \in Fixtures |-> 0]
  /\ routes' = {}
  /\ registered' = {}
  /\ epoch' = Len(objs)
  /\ last' = Called("reset", "", 0, "", Undefined, Undefined)
  /\ UNCHANGED <<bound, dependencies, objs, held, stack, pending, log, save, naid, dbseq>>

Reset ==
  /\ Spend("op", MaxOps)
  /\ dependencies' = << >>
  /\ instances' = << >>
  /\ created' = [f \in Fixtures |-> 0]
  /\ built' = [f \in Fixtures |-> 0]
  /\ routes' = {}
  /\ registered' = {}
  /\ epoch' = Len(objs)
  /\ stack' = [i \in DOMAIN stack |-> Detach(stack[i])]
  /\ last' = Called("reset", "", 0, "", Undefined, Undefined)
  /\ UNCHANGED <<bound, objs, held, pending, log, save, naid, dbseq>>

(* ---------------------------- specification --------------------------- *)
SetValues == {Plain(5)}

Init ==
  /\ bound = FALSE
  /\ instances = << >>
  /\ dependencies = << >>
  /\ objs = << >>
  /\ created = [f \in Fixtures |-> 0]
  /\ built = [f \in Fixtures |-> 0]
  /\ routes = {}
  /\ registered = {}
  /\ epoch = 0
  /\ last = Called("new", "", 0, "", Undefined, Undefined)
  /\ held = 0
  /\ budget = [op |-> 0, save |-> 0, during |-> 0]
  /\ stack = << >>
  /\ pending = << >>
  /\ log = << >>
  /\ save = [on |-> 0, arg |-> "omitted", state |-> "none", ret |-> Undefined,
             table |-> << >>, during |-> 0]
  /\ naid = 0
  /\ dbseq = 0

Next ==
  \/ Bind
  \/ \E f \in Bound : Call(f)
  \/ \E o \in DOMAIN objs : \E key \in Keys : \E v \in SetValues : With(o, key, v)
  \/ \E o \in DOMAIN objs : \E m \in ModifiersOf(objs[o].fixture) : Modify(o, m)
  \/ \E o \in DOMAIN objs : \E arg \in SaveArgs : SaveCall(o, arg)
  \/ Resolve
  \/ Resume
  \/ Finish
  \/ Reset

Spec == Init /\ [][Next]_vars

\* The same program over a database whose persistence calls may reject
\* (save() called with no argument, no setter used).
NextFailing ==
  \/ Bind
  \/ \E f \in Bound : Call(f)
  \/ \E o \in DOMAIN objs : \E m \in ModifiersOf(objs[o].fixture) : Modify(o, m)
  \/ \E o \in DOMAIN objs : SaveCall(o, "omitted")
  \/ Resolve
  \/ Reject
  \/ Resume
  \/ Finish
  \/ Reset

SpecFailing == Init /\ [][NextFailing]_vars

\* The same program bound to fixtures that can depend on each other: Pong
\* names Ping in its init and a modifier of Ping registers Pong; Hen and Egg
\* name each other in their inits. Every persistence call resolves, and a
\* continuation that can run does run.
BoundCyclic == {"Ping", "Pong", "Hen"}

NextCyclic ==
  \/ Bind
  \/ \E f \in BoundCyclic : Call(f)
  \/ \E o \in DOMAIN objs : \E m \in ModifiersOf(objs[o].fixture) : Modify(o, m)
  \/ \E o \in DOMAIN objs : \E arg \in SaveArgs : SaveCall(o, arg)
  \/ Resolve
  \/ Resume
  \/ Finish
  \/ Reset

\* When Resolve and Resume can be taken.
CanResolve == pending # <<>>
CanResume == pending = <<>> /\ Len(stack) > 1 /\ stack[Len(stack)].pc = "done"

\* Weak fairness of Resolve, Resume and Finish: the database answers every
\* call and the event loop runs every continuation that is ready. For
\* Resolve and Resume it is written out, with the condition under which the
\* action can be taken in the place of ENABLED.
SpecCyclic ==
  /\ Init /\ [][NextCyclic]_vars
  /\ []<>(~CanResolve) \/ []<><<Resolve>>_vars
  /\ []<>(~CanResume) \/ []<><<Resume>>_vars
  /\ WF_vars(Finish)

\* The program with the fixtures of a cart: a Cart whose items are Lines, a
\* Line being related(Item, ofCart), and the Item itself. Fixtures are built
\* and changed, nothing is saved.
BoundRelated == {"Cart", "Line", "Item"}

NextRelated ==
  \/ Bind
  \/ \E f \in BoundRelated : Call(f)
  \/ \E o \in DOMAIN objs : \E key \in Keys : \E v \in SetValues : With(o, key, v)
  \/ \E o \in DOMAIN objs : \E m \in Object(objs[o].fixture).modifiers : Modify(o, m)
  \/ Reset

SpecRelated == Init /\ [][NextRelated]_vars

(* ------------------------- reading the log --------------------------- *)
Events(k) == {i \in DOMAIN log : log[i].k = k}

\* The persistence calls activation a started for the list entry d (a
\* nested activation for a fixture, entityManager.save for anything else),
\* and those of them that completed.
PersistStarts(a, d) ==
  {i \in DOMAIN log : /\ log[i].dep = d
                      /\ \/ log[i].k = "call" /\ log[i].par = a
                         \/ log[i].k = "em.start" /\ log[i].aid = a}
PersistEnds(a, d) ==
  {i \in DOMAIN log : /\ log[i].dep = d
                      /\ \/ log[i].k = "ret" /\ log[i].par = a
                         \/ log[i].k = "em.end" /\ log[i].aid = a}

Occurrences(deps, d) == Cardinality({j \in DOMAIN deps : deps[j] = d})
Returned(a) == \E r \in Events("ret") : log[r].aid = a

(* ------------------------------- C1 ----------------------------------- *)
\* C1: in every activation of saveFixtureInstance for fixture F, each 'before'
\* dependency registered for F when it was called has a persistence call
\* that completed before F's own repository.save started (one per entry),
\* and each persistence call for a registered 'after' dependency started
\* after F's own repository.save completed (and was made, once F returned).
C1_BeforeThenOwnThenAfter ==
  \A c \in Events("call") :
    LET a == log[c].aid
        deps == log[c].deps
    IN  \A d \in {deps[j] : j \in DOMAIN deps} :
          /\ d.saveOrder = "before" =>
               \A own \in Events("repo.start") : log[own].aid = a =>
                 /\ Cardinality({e \in PersistEnds(a, d) : e < own}) >= Occurrences(deps, d)
                 /\ \A e \in PersistEnds(a, d) : \E i \in PersistStarts(a, d) : i < e
          /\ d.saveOrder = "after" =>
               /\ \A i \in PersistStarts(a, d) :
                    \E own \in Events("repo.end") : log[own].aid = a /\ own < i
               /\ Returned(a) =>
                    Cardinality(PersistStarts(a, d)) >= Occurrences(deps, d)

\* A save() of an Order whose list holds both buckets has resolved.
C1_Witness ==
  /\ save.state = "resolved"
  /\ objs[save.on].fixture = "Order"
  /\ \E c \in Events("call") :
       /\ log[c].par = 0
       /\ \E j \in DOMAIN log[c].deps : log[c].deps[j].saveOrder = "before"
       /\ \E j \in DOMAIN log[c].deps : log[c].deps[j].saveOrder = "after"
       /\ \E j \in DOMAIN log[c].deps : log[c].deps[j].fixture = NoFixture

(* ------------------------------- C2 ----------------------------------- *)
\* What the init of a fixture asks for: one 'before' entry for each value
\* that is a fixture, one 'after' entry for each element of an array of
\* fixtures, in key order and array order.
AllFixtures(v) == v.t = "array" /\ \A i \in DOMAIN v.s : v.s[i].t = "fixture"
RECURSIVE InitDeps(_)
InitDeps(entries) ==
  IF entries = <<>> THEN <<>>
  ELSE LET v == Head(entries)[2]
           here == IF v.t = "fixture"
                   THEN <<[fixture |-> v.f, saveOrder |-> "before"]>>
                   ELSE IF AllFixtures(v)
                   THEN [i \in DOMAIN v.s |-> [fixture |-> v.s[i].f, saveOrder |-> "after"]]
                   ELSE <<>>
       IN  here \o InitDeps(Tail(entries))

InitDepsOf(f) == InitDeps(InitOf(f))

\* The fixtures a build of the fixtures fs builds: fs and those their inits
\* refer to, n levels deep.
RECURSIVE BuiltWith(_, _)
BuiltWith(fs, n) ==
  IF n = 0 THEN fs
  ELSE BuiltWith(fs \cup UNION {{InitDepsOf(f)[i].fixture : i \in DOMAIN InitDepsOf(f)} :
                                  f \in fs}, n - 1)

BuiltAsInit(f) ==
  LET exp == InitDepsOf(f)
      deps == DepsOf(dependencies, f)
      n == Len(exp)
  IN  /\ Len(deps) >= n
      /\ \A i \in 1 .. n :
           deps[Len(deps) - n + i] =
             [fixture |-> exp[i].fixture,
              instance |-> Ref(Get(instances, exp[i].fixture)),
              saveOrder |-> exp[i].saveOrder]
      /\ \A e \in DOMAIN InitOf(f) :
           LET key == InitOf(f)[e][1]
               v == InitOf(f)[e][2]
               got == objs[instances[f]].fields[key]
           IN  /\ v.t = "fixture" => got = Ref(Get(instances, v.f))
               /\ AllFixtures(v) =>
                    got = Array([i \in DOMAIN v.s |-> Ref(Get(instances, v.s[i].f))])

\* C2: when a bound function has returned, every fixture F built by the call
\* has each single-fixture init property set to that fixture's instance and
\* registered last as a 'before' dependency of F, and each all-fixture array
\* property set to the array of instances, each registered as an 'after'
\* dependency of F in array order.
C2_InitFixturesBecomeDependencies ==
  last.op = "call" =>
    \A f \in BuiltWith({last.f}, Cardinality(Fixtures)) : f \in DOMAIN instances /\ BuiltAsInit(f)

\* An Order has been built: a single fixture and an array of two fixtures.
C2_Witness ==
  /\ last.op = "call" /\ last.f = "Order"
  /\ Len(DepsOf(dependencies, "Order")) >= 3
  /\ objs[instances["Order"]].fields["items"].t = "array"
  /\ Len(objs[instances["Order"]].fields["items"].s) = 2

(* ------------------------------- C3 ----------------------------------- *)
\* C3: between two resets, repository.create has been called at most once
\* for each fixture, distinct fixtures have distinct instances, a bound
\* function returns the memoized entity, every fixture dependency registered
\* holds the memoized entity of its fixture, and that entity was made for
\* that fixture after the last reset.
C3_OneInstancePerFixture ==
  /\ \A f \in Fixtures : created[f] <= 1
  /\ \A f, g \in DOMAIN instances : f # g => instances[f] # instances[g]
  /\ last.op = "call" => last.f \in DOMAIN instances /\ last.ret = Ref(instances[last.f])
  /\ \A f \in DOMAIN dependencies : \A i \in DOMAIN dependencies[f] :
       LET d == dependencies[f][i]
       IN  d.fixture # NoFixture =>
             d.fixture \in DOMAIN instances /\ d.instance = Ref(instances[d.fixture])
  /\ \A f \in DOMAIN instances :
       /\ instances[f] \in DOMAIN objs /\ instances[f] > epoch
       /\ objs[instances[f]].fixture = f
       /\ Cardinality({o \in DOMAIN objs : o > epoch /\ objs[o].fixture = f}) = 1

\* The Order has been built a second time, top-level and as the owner of
\* dependencies that were built before.
C3_Witness ==
  /\ last.op = "call" /\ last.f = "Order"
  /\ Len(DepsOf(dependencies, "Order")) >= 2 * Len(InitDepsOf("Order"))
  /\ created["Order"] = 1 /\ created["User"] = 1

(* ------------------------------- C4 ----------------------------------- *)
Route(f, route) == <<f, route>> \in routes

NothingBuilt ==
  /\ instances = << >> /\ dependencies = << >> /\ objs = << >>
  /\ \A f \in Fixtures : created[f] = 0
  /\ log = << >> /\ pending = << >>

\* C4 as stated: bind() builds nothing, and a fixture has an instance in the
\* memo only if its bound function was called or it was resolved as a
\* dependency during a fixture's build.
C4_Original ==
  /\ (~bound \/ last.op = "bind") => NothingBuilt
  /\ \A f \in DOMAIN instances : Route(f, "bound") \/ Route(f, "init")

\* C4 (amended): bind() builds nothing, and a fixture has an instance in the
\* memo only if its bound function was called or it was resolved as a
\* dependency of another fixture: during that fixture's build, or by a
\* modifier that called addDependencyBefore / addDependencyAfter.
C4_LazyUntilCalledOrResolved ==
  /\ (~bound \/ last.op = "bind") => NothingBuilt
  /\ \A f \in DOMAIN instances :
       \/ Route(f, "bound") /\ f \in Bound
       \/ Route(f, "init") /\ \E g \in DOMAIN instances :
                                \E i \in DOMAIN InitDepsOf(g) : InitDepsOf(g)[i].fixture = f
       \/ Route(f, "modifier") /\ \E g \in DOMAIN dependencies :
                                    \E i \in DOMAIN dependencies[g] :
                                      dependencies[g][i].fixture = f

\* bind() has returned, and a modifier has put a Gift in the memo that no
\* build and no bound function made.
C4_Witness ==
  /\ bound
  /\ "Gift" \in DOMAIN instances
  /\ Route("Gift", "modifier") /\ ~Route("Gift", "init") /\ ~Route("Gift", "bound")

(* ------------------------------- C5 ----------------------------------- *)
Starts == Events("repo.start") \cup Events("em.start")

\* C5 as stated: during one save(), the instance of a fixture dependency is
\* handed to repository.save at most once, however often it is registered
\* or reachable.
C5_Original ==
  \A i, j \in Events("repo.start") :
    (i # j /\ log[i].par # 0 /\ log[j].par # 0) => log[i].tgt # log[j].tgt

(* ------------------------------- C6 ----------------------------------- *)
\* C6 as stated: save(false) persists the instance it is called on and
\* nothing else, while save() and save(true) persist the registered
\* dependencies as well.
C6_Original ==
  /\ save.arg = "false" => \A i \in Starts : log[i].tgt = Ref(save.on) /\ log[i].par = 0
  /\ (save.arg # "false" /\ save.state = "resolved") =>
       \A c \in Events("call") : \A j \in DOMAIN log[c].deps :
         PersistStarts(log[c].aid, log[c].deps[j]) # {}

(* ------------------------------- C7 ----------------------------------- *)
CallOf(a) == (CHOOSE c \in Events("call") : log[c].aid = a)

\* C7: save() resolves to the instance it was called on; in every activation
\* the fields repository.save returned are copied onto the instance after
\* the own persistence call completed, the instance then carries the id,
\* and every persistence call for an 'after' dependency starts after that:
\* a function registered as an 'after' dependency of the instance that reads
\* the instance's id reads the generated id.
C7_ResolvesToInstanceWithId ==
  /\ save.state = "resolved" => save.ret = Ref(save.on)
  /\ \A e \in Events("assign") :
       /\ \E own \in Events("repo.end") : log[own].aid = log[e].aid /\ own < e
       /\ log[e].tgt.t = "plain"
       /\ objs[log[CallOf(log[e].aid)].tgt.n].fields["id"] = log[e].tgt
  /\ \A i \in DOMAIN log :
       (log[i].dep.saveOrder = "after" /\ log[i].k \in {"call", "em.start", "eval"}) =>
         LET a == IF log[i].k = "call" THEN log[i].par ELSE log[i].aid
         IN  /\ \E e \in Events("assign") : log[e].aid = a /\ e < i
             /\ (log[i].k = "eval" /\ log[i].dep.instance.n = log[CallOf(a)].tgt.n) =>
                  log[i].tgt.n # 0 /\ log[i].tgt.n = IdOf(objs, log[i].dep.instance.n)

\* A save() has resolved in which a function, registered as an 'after'
\* dependency, read the id of the instance saved.
C7_Witness ==
  /\ save.state = "resolved"
  /\ \E i \in Events("eval") :
       /\ log[i].dep.saveOrder = "after"
       /\ log[i].dep.instance.n = save.on
       /\ log[i].tgt.n # 0
  /\ \E i \in Events("call") : log[i].dep.saveOrder = "after"

(* ------------------------------- C8 ----------------------------------- *)
\* The owner of the list the entry of log[i] is from.
OwnerOf(i) ==
  IF log[i].k \in {"call", "ret"} THEN log[CallOf(log[i].par)].f ELSE log[i].f

\* C8: right after reset() the memo and the dependency table are empty;
\* every instance in the memo was made after the last reset; and a save()
\* of an instance made after the last reset persists, besides the instance,
\* only dependencies registered since that reset, all of them entities made
\* after it when they are fixture instances.
C8_ResetForgetsEverything ==
  /\ last.op = "reset" => instances = << >> /\ dependencies = << >>
  /\ \A f \in DOMAIN instances : instances[f] > epoch
  /\ (save.state # "none" /\ save.on > epoch) =>
       \A i \in DOMAIN log :
         /\ log[i].dep # NoDep => [owner |-> OwnerOf(i), dep |-> log[i].dep] \in registered
         /\ log[i].k = "repo.start" => log[i].tgt.n > epoch

\* After a reset that followed a build, a new Order has been built and saved
\* with its dependencies.
C8_Witness ==
  /\ epoch > 0
  /\ save.state = "resolved" /\ save.on > epoch
  /\ objs[save.on].fixture = "Order"
  /\ Cardinality(Events("repo.start")) >= 4

(* ------------------------------- C9 ----------------------------------- *)
\* C9: a dependency that is no fixture is persisted with entityManager.save
\* by the activation of its owner, with no nested activation, in its
\* bucket: before the owner's repository.save starts, or after it completes.
\* A function is registered as it is; each time a save reaches its entry it
\* is called once and its result is persisted at once, so that it sees the
\* state of that moment (the id of a saved owner).
C9_PlainDependencies ==
  /\ \A i \in DOMAIN log :
       (log[i].dep # NoDep /\ log[i].dep.fixture = NoFixture) =>
         /\ log[i].k \in {"eval", "em.start", "em.end", "em.reject"}
         /\ log[i].dep.saveOrder = "before" =>
              ~\E own \in Events("repo.start") : log[own].aid = log[i].aid /\ own < i
         /\ log[i].dep.saveOrder = "after" =>
              \E own \in Events("repo.end") : log[own].aid = log[i].aid /\ own < i
  /\ \A i \in Events("em.start") :
       /\ log[i].dep.fixture = NoFixture
       /\ IF log[i].dep.instance.t = "fn"
          THEN /\ i > 1 /\ log[i - 1].k = "eval"
               /\ log[i - 1].dep = log[i].dep /\ log[i - 1].aid = log[i].aid
               /\ log[i - 1].tgt = log[i].tgt
               /\ log[i].tgt.t = "ext"
               /\ log[i].tgt.n \in {0, IdOf(objs, log[i].dep.instance.n)}
          ELSE log[i].tgt = log[i].dep.instance
  /\ \A i \in Events("eval") :
       /\ log[i].dep.instance.t = "fn"
       /\ i < Len(log) /\ log[i + 1].k = "em.start" /\ log[i + 1].dep = log[i].dep
       /\ (log[i].dep.saveOrder = "after" /\ log[i].dep.instance.n = log[CallOf(log[i].aid)].tgt.n)
            => log[i].tgt.n # 0
  /\ (last.op = "mod" /\ last.key = "withAudit") =>
       LET deps == DepsOf(dependencies, last.f)
       IN  Len(deps) > 0 /\ deps[Len(deps)] =
             [fixture |-> NoFixture, instance |-> Fn("audit", last.o), saveOrder |-> "after"]

\* A save() has resolved that persisted a plain entity before its owner and
\* the result of a function after it, the function having read the id the
\* owner got from this save.
C9_Witness ==
  /\ save.state = "resolved"
  /\ \E i \in Events("em.end") : log[i].dep.saveOrder = "before" /\ log[i].tgt.f = "Org"
  /\ \E i \in Events("em.end") :
       /\ log[i].dep.saveOrder = "after" /\ log[i].dep.instance.t = "fn"
       /\ log[i].tgt.n # 0

(* ------------------------------- C10 ---------------------------------- *)
\* C10: a with_<column>(v) setter leaves v in that column of the instance
\* and returns the instance; a modifier wrapper returns the instance when
\* the modifier returned null or undefined, and the modifier's result
\* otherwise (also a falsy one).
C10_Chaining ==
  /\ last.op = "with" =>
       /\ last.ret = Ref(last.o)
       /\ objs[last.o].fields[last.key] = last.arg
  /\ last.op = "mod" =>
       last.ret = IF ModifierResult(last.key) \in {Undefined, Null}
                  THEN Ref(last.o) ELSE ModifierResult(last.key)

\* A modifier that returns nothing has returned the instance, on which a
\* setter had been called before.
C10_Witness ==
  /\ last.op = "mod" /\ last.ret = Ref(last.o)
  /\ ModifierResult(last.key) = Undefined
  /\ \E key \in Columns(last.f) : objs[last.o].fields[key] \in SetValues

(* ------------------------------- C11 ---------------------------------- *)
\* The persistence calls of the log, in the order they were issued.
Call_(via, tgt) == [via |-> via, tgt |-> tgt]
IsStart(e) == e.k \in {"repo.start", "em.start"}
Issued ==
  LET starts == SelectSeq(log, IsStart)
  IN  [i \in DOMAIN starts |->
         Call_(IF starts[i].k = "repo.start" THEN "repo" ELSE "em", starts[i].tgt)]

\* The reference order: Seq(F) = Seq(b1) .. Seq(bn) , F , Seq(a1) .. Seq(am)
\* over the table as it was when save() was called, n levels deep.
IsBefore(d) == d.saveOrder = "before"
IsAfter(d) == d.saveOrder = "after"
RECURSIVE SeqOf(_, _, _)
RECURSIVE SeqOfAll(_, _)
SeqOf(f, o, n) ==
  IF n = 0 THEN <<>>
  ELSE SeqOfAll(SelectSeq(DepsOf(save.table, f), IsBefore), n - 1)
       \o <<Call_("repo", Ref(o))>>
       \o SeqOfAll(SelectSeq(DepsOf(save.table, f), IsAfter), n - 1)
SeqOfAll(deps, n) ==
  IF deps = <<>> THEN <<>>
  ELSE (IF Head(deps).fixture # NoFixture
        THEN SeqOf(Head(deps).fixture, Head(deps).instance.n, n)
        ELSE <<Call_("em", DepInstance(Head(deps), objs))>>)
       \o SeqOfAll(Tail(deps), n)

Depth == Cardinality(Fixtures) + 1
Undisturbed == save.state # "none" /\ budget.during = save.during
IsPrefix(s, t) == Len(s) <= Len(t) /\ SubSeq(t, 1, Len(s)) = s

\* C11: when no call was made on the provider while a save() on the instance
\* of F was running, the persistence calls it has issued so far are the first
\* calls of the reference order Seq(F), and once save() has resolved they are
\* all of Seq(F), in that order.
C11_DepthFirstOrder ==
  Undisturbed =>
    LET ref == SeqOf(objs[save.on].fixture, save.on, Depth)
    IN  /\ IsPrefix(Issued, ref)
        /\ save.state = "resolved" => Issued = ref

\* A save() of an Order has resolved whose list held 'before' and 'after'
\* entries, a fixture with a list of its own among them, and an entity that
\* is no fixture.
C11_Witness ==
  /\ Undisturbed /\ save.state = "resolved"
  /\ objs[save.on].fixture = "Order"
  /\ Len(Issued) >= 6
  /\ \E i \in DOMAIN Issued : Issued[i].via = "em"
  /\ \E f \in DOMAIN save.table : f # "Order" /\ save.table[f] # <<>>

(* ------------------------------- C12 ---------------------------------- *)
\* The persistence calls of the log as they started and ended.
IsPersistence(e) ==
  e.k \in {"repo.start", "repo.end", "repo.reject", "em.start", "em.end", "em.reject"}
Persistence == SelectSeq(log, IsPersistence)
Started(e) == e.k \in {"repo.start", "em.start"}

\* C12: at every moment of a save() at most one persistence call it has
\* issued is outstanding; its calls start and end in turn, each end being
\* that of the call started last, so that a call is issued only after the
\* one before it has resolved.
C12_OneAtATime ==
  /\ Len(pending) <= 1
  /\ LET p == Persistence
     IN  /\ \A i \in DOMAIN p :
               IF i % 2 = 1 THEN Started(p[i])
               ELSE /\ ~Started(p[i])
                    /\ p[i].tgt = p[i - 1].tgt /\ p[i].aid = p[i - 1].aid
                    /\ p[i].dep = p[i - 1].dep
         /\ pending # <<>> <=> (Len(p) % 2 = 1)
         /\ pending # <<>> => pending[1].tgt = p[Len(p)].tgt

\* A save() that has issued persistence calls of both kinds, nested saves
\* among them, is waiting for its fifth to resolve.
C12_Witness ==
  /\ Len(pending) = 1
  /\ Len(Persistence) >= 9
  /\ \E i \in DOMAIN Persistence : Persistence[i].k = "em.end"
  /\ \E i \in DOMAIN Persistence : Persistence[i].k = "repo.end" /\ Persistence[i].par # 0

(* ------------------------------- C13 ---------------------------------- *)
Rejects == Events("repo.reject") \cup Events("em.reject")
Activations == {log[c].aid : c \in Events("call")}

\* What failed in activation a: its own repository.save ("own"), or the
\* entry of its list whose persistence call, or whose nested activation n
\* levels deep, rejected.
RECURSIVE FailedIn(_, _)
FailedIn(a, n) ==
  {[saveOrder |-> "own"] : r \in {r \in Events("repo.reject") : log[r].aid = a}}
  \cup {[saveOrder |-> log[r].dep.saveOrder] : r \in {r \in Events("em.reject") : log[r].aid = a}}
  \cup (IF n = 0 THEN {}
        ELSE {[saveOrder |-> log[c].dep.saveOrder] :
                c \in {c \in Events("call") : log[c].par = a /\ FailedIn(log[c].aid, n - 1) # {}}})

\* The state after a rejection: save() has rejected with the error of the
\* call that rejected, which is the last thing the save did.
Unwound ==
  /\ stack = <<>> /\ pending = <<>>
  /\ log # <<>> /\ Rejects = {Len(log)}
  /\ save.ret = Error(IF log[Len(log)].k = "repo.reject" THEN "repo" ELSE "em",
                      Cardinality(Starts))
  /\ \A i \in Starts : i < Len(log) - 1 =>
       \E j \in Events("repo.end") \cup Events("em.end") : j > i

\* What a failure in activation a leaves undone.
LeftUndone(a) ==
  \A w \in FailedIn(a, MaxStack) :
    /\ w.saveOrder = "before" => ~\E i \in Events("repo.start") : log[i].aid = a
    /\ \A i \in DOMAIN log :
         (log[i].dep.saveOrder = "after" /\ log[i].k \in {"call", "em.start", "eval"}
          /\ (IF log[i].k = "call" THEN log[i].par ELSE log[i].aid) = a)
           => w.saveOrder = "after"

\* C13: when a persistence call of a save() rejects, save() rejects with that
\* error; the rejected call is the last the save issues (none after it, none
\* for the same object again); in every activation the failure passes
\* through, a failing 'before' entry leaves the own repository.save and the
\* 'after' entries unissued and a failing own save leaves the 'after' entries
\* unissued; and the rejection changes neither the memo nor the dependency
\* table nor any entity.
C13_RejectionStopsTheSave ==
  /\ [](/\ (save.state = "rejected" <=> Rejects # {})
        /\ Rejects # {} => Unwound
        /\ \A a \in Activations : LeftUndone(a))
  /\ [][(save.state = "rejected" /\ save'.state = "rejected")
          => (log' = log /\ pending' = <<>> /\ stack' = <<>>)]_vars
  /\ [][(save.state = "running" /\ save'.state = "rejected")
          => (instances' = instances /\ dependencies' = dependencies /\ objs' = objs)]_vars

\* A save() of an Order has rejected after its own repository.save had
\* resolved: the save of the User the Item names, a 'before' entry of the
\* Item, an 'after' entry of the Order, rejected.
C13_Witness ==
  /\ save.state = "rejected"
  /\ \E r \in Events("repo.reject") :
       /\ log[r].par # 0
       /\ log[CallOf(log[r].aid)].dep.saveOrder = "before"
       /\ log[CallOf(log[r].par)].dep.saveOrder = "after"
       /\ \E e \in Events("repo.end") : log[e].par = 0

(* ------------------------------- C14 ---------------------------------- *)
\* The graph of the dependency table: the fixtures registered in the list of
\* f with one of the save orders, what is reachable from a set of fixtures,
\* and whether a cycle is.
DepFixtures(table, f, orders) ==
  {DepsOf(table, f)[i].fixture :
     i \in {i \in DOMAIN DepsOf(table, f) : DepsOf(table, f)[i].saveOrder \in orders}}
  \ {NoFixture}
RECURSIVE ReachIn(_, _, _, _)
ReachIn(table, fs, orders, n) ==
  IF n = 0 THEN fs
  ELSE ReachIn(table, fs \cup UNION {DepFixtures(table, f, orders) : f \in fs}, orders, n - 1)
CyclicFrom(table, f, orders) ==
  \E g \in ReachIn(table, {f}, orders, Cardinality(Fixtures)) :
    g \in ReachIn(table, DepFixtures(table, g, orders), orders, Cardinality(Fixtures))

AnyOrder == {"before", "after"}
Saved == IF save.on = 0 THEN NoFixture ELSE objs[save.on].fixture

\* C14 as stated: when the fixtures reachable from F in the dependency table
\* lie on a cycle, save() recurses without end: it never settles.
C14_Original ==
  (Undisturbed /\ CyclicFrom(save.table, Saved, AnyOrder)) => save.state = "running"

\* C14 (amended): every persistence call resolving, save() on F resolves if
\* and only if the fixtures reachable from F in the dependency table lie on no
\* cycle. On a cycle it never resolves. It rejects, and only then, when the
\* recursion through 'before' entries fills the call stack before it
\* reaches an await: with a RangeError. Otherwise it goes on forever. (The
\* table is the one save() was called with, no call being made on the
\* provider while the save runs.)
C14_ResolvesIffAcyclic ==
  /\ []((save.state = "resolved" /\ Undisturbed) => ~CyclicFrom(save.table, Saved, AnyOrder))
  /\ []((save.state = "rejected" /\ Undisturbed) =>
          /\ save.ret = RangeError
          /\ CyclicFrom(save.table, Saved, {"before"}))
  /\ (save.state = "running" /\ ~CyclicFrom(save.table, Saved, AnyOrder))
       ~> (save.state = "resolved" \/ ~Undisturbed)

\* A save() of a Ping is running whose Pong, registered 'after' by a
\* modifier, names the Ping in its init: it has saved the Ping, the Ping of
\* the Pong, and is about to save that Ping's Pong.
C14_Witness ==
  /\ save.state = "running" /\ Undisturbed
  /\ Saved = "Ping"
  /\ CyclicFrom(save.table, "Ping", AnyOrder) /\ ~CyclicFrom(save.table, "Ping", {"before"})
  /\ Cardinality({i \in Events("repo.end") : log[i].tgt = Ref(save.on)}) >= 2

(* ------------------------------- C15 ---------------------------------- *)
\* The graph of fixture references in init values.
InitRefs(f) == {InitDepsOf(f)[i].fixture : i \in DOMAIN InitDepsOf(f)}
RECURSIVE InitReach(_, _)
InitReach(fs, n) ==
  IF n = 0 THEN fs ELSE InitReach(fs \cup UNION {InitRefs(f) : f \in fs}, n - 1)
InitCyclicFrom(f) ==
  \E g \in InitReach({f}, Cardinality(Fixtures)) :
    g \in InitReach(InitRefs(g), Cardinality(Fixtures))

\* C15: a bound function returns the instance of its fixture if and only if
\* the fixture references in init values reachable from the fixture lie on
\* no cycle. On a cycle the build does not finish: the fixtures of the cycle
\* are in the memo, made once, and were built again and again, the memo not
\* keeping init from running, until the call stack was full and the call
\* threw a RangeError.
C15_BuildReturnsIffAcyclic ==
  last.op = "call" =>
    IF InitCyclicFrom(last.f)
    THEN /\ last.ret = RangeError
         /\ \E g \in InitReach({last.f}, Cardinality(Fixtures)) :
              /\ g \in DOMAIN instances
              /\ created[g] = 1 /\ built[g] > 1
              /\ ~objs[instances[g]].methods.save
    ELSE /\ last.f \in DOMAIN instances
         /\ last.ret = Ref(instances[last.f])
         /\ objs[instances[last.f]].methods.save

\* The bound function of a Hen, whose Egg names the Hen, has been called.
C15_Witness ==
  /\ last.op = "call" /\ last.f = "Hen"
  /\ "Hen" \in DOMAIN instances /\ "Egg" \in DOMAIN instances
  /\ built["Hen"] >= 2

(* ------------------------------- C16 ---------------------------------- *)
\* The init object a fixture's init gives for an owner (0: none).
InitFor(f, o) == CallInit(Object(f).init, o, objs)

\* Each key of `both` has in `got` the value `over` has for it, or else the
\* value `base` has for it, and `got` has no other key.
Overrides(got, base, over) ==
  \A k \in Keys :
    IF HasKey(over, k) THEN HasKey(got, k) /\ ValueAt(got, k) = ValueAt(over, k)
    ELSE IF HasKey(base, k) THEN HasKey(got, k) /\ ValueAt(got, k) = ValueAt(base, k)
    ELSE ~HasKey(got, k)

\* The dependency list of f holds one 'before' entry, the User, for each
\* build of f.
OwnList(f) ==
  /\ Len(DepsOf(dependencies, f)) = built[f]
  /\ \A i \in DOMAIN DepsOf(dependencies, f) :
       DepsOf(dependencies, f)[i] =
         [fixture |-> "User", instance |-> Ref(Get(instances, "User")), saveOrder |-> "before"]

\* C16: related(Item, ofCart) is a fixture object of its own: it is not the
\* Item, it is recognised as a fixture (it carries the FIXTURE symbol, and a
\* Cart that names it in an array gets its instance), it has the Entity and the modifiers
\* of the Item, and its init gives, for every owner, the init of the Item
\* with each key the init function returns overriding the same key. It has
\* its own instance in the memo and its own dependency list: a build of the
\* one leaves the instance and the list of the other as they were.
C16_RelatedIsItsOwnFixture ==
  /\ Object("Line") # Object("Item")
  /\ Object("Line").FIXTURE = TRUE /\ isFixture(FixtureVal("Line"))
  /\ (last.op = "call" /\ last.f = "Cart") =>
       objs[instances["Cart"]].fields["items"] = Array(<<Ref(Get(instances, "Line"))>>)
  /\ Object("Line").Entity = Object("Item").Entity
  /\ Object("Line").modifiers = Object("Item").modifiers
  /\ \A o \in {0} \cup DOMAIN objs :
       Overrides(InitFor("Line", o), InitOf("Item"), ExtraInit("ofCart", o, objs))
  /\ \A f \in {"Line", "Item"} :
       /\ OwnList(f)
       /\ f \in DOMAIN instances =>
            /\ objs[instances[f]].fixture = f
            /\ objs[instances[f]].methods.setters = Columns("Item")
            /\ objs[instances[f]].methods.modifiers = ModifiersOf("Item")
            /\ objs[instances[f]].fields["owner"] = Ref(Get(instances, "User"))
  /\ ("Line" \in DOMAIN instances /\ "Item" \in DOMAIN instances) =>
       instances["Line"] # instances["Item"]
  /\ (last.op = "call" /\ last.f = "Line") =>
       objs[instances["Line"]].fields["sku"] = Plain(9)
  /\ (last.op = "call" /\ last.f = "Item") =>
       objs[instances["Item"]].fields["sku"] = Plain(2)

\* A Line has been built by its bound function, after an Item that was built
\* twice: two instances in the memo, one list of one entry and one of two.
C16_Witness ==
  /\ last.op = "call" /\ last.f = "Line"
  /\ "Item" \in DOMAIN instances
  /\ built["Item"] = 2 /\ built["Line"] = 1
  /\ Len(DepsOf(dependencies, "Item")) = 2 /\ Len(DepsOf(dependencies, "Line")) = 1

(* ------------------------------- C17 ---------------------------------- *)
\* What the init function of the Line has made of the owner it was given:
\* the owner itself, and the name and the note the owner carried.
LineFields == objs[instances["Line"]].fields
NoteOf(f) == IF f \in DOMAIN instances THEN objs[instances[f]].fields["note"] ELSE Undefined

\* C17 as stated: whenever the Cart is built, the init of its Line finds on
\* the Cart the name, whose key precedes `items`, and no note, whose key
\* follows it.
C17_Original ==
  (last.op = "call" /\ last.f = "Cart") =>
    /\ LineFields["cart"] = Ref(instances["Cart"])
    /\ LineFields["seen"] = Plain(4)
    /\ LineFields["later"] = Undefined

\* C17: the init function of a fixture built by its bound function is given
\* undefined; that of a fixture built as a dependency is given the instance
\* of its owner. Built from the init of the owner, it finds on the owner the
\* init properties whose keys precede its own, as this build has set them,
\* and under the later keys what the owner carried before this build:
\* nothing on the build that made the owner's instance, the values of the
\* build before or of a setter on a build that reuses it. Built from a
\* modifier, it finds the owner as it stands.
C17_OwnerPassedToInit ==
  /\ []((last.op = "call" /\ last.f = "Line") =>
          /\ LineFields["cart"] = Undefined
          /\ LineFields["seen"] = Undefined
          /\ LineFields["later"] = Undefined)
  /\ []((last.op = "call" /\ last.f = "Cart") =>
          /\ LineFields["cart"] = Ref(instances["Cart"])
          /\ LineFields["seen"] = Plain(4)
          /\ (created["Cart"] = 1 /\ built["Cart"] = 1) => LineFields["later"] = Undefined)
  /\ [][(last'.op = "call" /\ last'.f = "Cart") => LineFields["later"]' = NoteOf("Cart")]_vars
  /\ [][(last'.op = "mod" /\ last'.key = "addLine") =>
          /\ LineFields["cart"]' = Ref(held)
          /\ LineFields["seen"]' = objs[held].fields["name"]
          /\ LineFields["later"]' = objs[held].fields["note"]]_vars

\* The Cart has been built a second time: the init of its Line has found
\* the note of the first build on it.
C17_Witness ==
  /\ last.op = "call" /\ last.f = "Cart"
  /\ built["Cart"] = 2
  /\ LineFields["cart"] = Ref(instances["Cart"])
  /\ LineFields["seen"] = Plain(4)
  /\ LineFields["later"] = Array(<<FixtureVal("Gift"), Plain(3)>>)

(* ------------------------------- C18 ---------------------------------- *)
\* What an init value that names no fixture leaves on the instance: the
\* result of the function, or the value itself.
Assigned(v) == IF v.t = "func" THEN Plain(v.n) ELSE v
NamesNoFixture(v) == v.t # "fixture" /\ ~AllFixtures(v)

\* C18: when the bound function of a Cart or an Item has returned, each
\* property whose init value is neither a fixture nor an array of fixtures
\* only holds the result of the value, if it is a function, and the value
\* itself if not: the array of a fixture and a number is on the Cart as it
\* was written. The Gift, named in that array alone, is never built, and no
\* dependency list holds an entry for it or for anything but a fixture built
\* from a fixture-valued init element or a modifier.
C18_OtherValuesAssigned ==
  /\ (last.op = "call" /\ last.f \in {"Cart", "Item"}) =>
       \A e \in DOMAIN InitOf(last.f) :
         LET key == InitOf(last.f)[e][1]
             v == InitOf(last.f)[e][2]
         IN  NamesNoFixture(v) => objs[instances[last.f]].fields[key] = Assigned(v)
  /\ "Gift" \notin DOMAIN instances
  /\ created["Gift"] = 0 /\ built["Gift"] = 0
  /\ \A f \in DOMAIN dependencies : \A i \in DOMAIN dependencies[f] :
       /\ dependencies[f][i].fixture \in {"Line", "User"}
       /\ dependencies[f][i].instance = Ref(instances[dependencies[f][i].fixture])
  /\ \A r \in registered : r.dep.fixture \in {"Line", "User"}

\* A Cart has been built after an Item: the function of the Item's sku has
\* been called, the array of a fixture and a number is on the Cart.
C18_Witness ==
  /\ last.op = "call" /\ last.f = "Cart"
  /\ objs[instances["Cart"]].fields["name"] = Plain(4)
  /\ objs[instances["Cart"]].fields["note"] = Array(<<FixtureVal("Gift"), Plain(3)>>)
  /\ "Item" \in DOMAIN instances
  /\ objs[instances["Item"]].fields["sku"] = Plain(2)

(* ------------------------------- C19 ---------------------------------- *)
\* The entry a fixture-valued init element of a fixture is registered as,
\* and how often the init of the fixture names it.
EntryOf(d) ==
  [fixture |-> d.fixture, instance |-> Ref(Get(instances, d.fixture)), saveOrder |-> d.saveOrder]
TimesNamed(f, d) == Cardinality({j \in DOMAIN InitDepsOf(f) : InitDepsOf(f)[j] = d})

\* C19: the dependency list of a fixture holds, for each fixture-valued
\* element of its init, as many entries as the fixture was built since the
\* last reset, builds that reuse the memoized instance included; every entry
\* registered since the last reset is in its list; and a step that is not a
\* reset leaves every list as a prefix of what it becomes.
C19_ListsOnlyGrow ==
  /\ [](\A f \in Fixtures : \A i \in DOMAIN InitDepsOf(f) :
          Occurrences(DepsOf(dependencies, f), EntryOf(InitDepsOf(f)[i])) =
            built[f] * TimesNamed(f, InitDepsOf(f)[i]))
  /\ [](\A r \in registered : Occurrences(DepsOf(dependencies, r.owner), r.dep) >= 1)
  /\ [][Reset \/ \A f \in Fixtures :
                   IsPrefix(DepsOf(dependencies, f), DepsOf(dependencies', f))]_vars

\* The Order has been built twice on one instance: two entries for its
\* User, its Item and its Gift.
C19_Witness ==
  /\ built["Order"] = 2 /\ created["Order"] = 1
  /\ Len(DepsOf(dependencies, "Order")) = 6
  /\ Occurrences(DepsOf(dependencies, "Order"), EntryOf(InitDepsOf("Order")[2])) = 2

====
